---- MODULE Spec2Model ----
(***************************************************************************)
(* Model of the conflict detection engine of the UAV strategic             *)
(* deconfliction system (src/conflict_checker.py, src/utils.py).           *)
(*                                                                         *)
(* Conventions of the model                                                *)
(*   - An instant (a Python datetime) is an integer number of ticks; one   *)
(*     second is TicksPerSecond ticks, so timestamps may carry a fraction  *)
(*     of a second, as ISO-8601 strings may.                               *)
(*   - A timestamp string is the record [fmt |-> "T", at |-> instant].     *)
(*   - A Python float is an exact rational <<numerator, denominator>> in   *)
(*     lowest terms with a positive denominator.                           *)
(*   - A value produced by round(v, 2) is an integer number of hundredths. *)
(*   - A distance sqrt(s) is carried as its square s.                      *)
(***************************************************************************)
EXTENDS Integers, Sequences, FiniteSets, TLC

(***************************************************************************)
(* Bounds of the model.                                                    *)
(***************************************************************************)
\* Resolution of the instants: ticks per second.
TicksPerSecond == 2

\* Largest number of simulated flights in one query.
MaxFlights == 2

(***************************************************************************)
(* Constants of the program.                                               *)
(***************************************************************************)
\* generate_continuous_path(mission_or_flight, step_seconds=1)
step_seconds == 1

\* check_interval = 5
check_interval == 5

\* if time_diff <= 120 or spatial_distance <= 50
dedup_seconds == 120

dedup_distance == 50

\* round(v, 2): hundredths per unit
Hundredths == 100

(***************************************************************************)
(* Exact rational arithmetic standing for Python float arithmetic.         *)
(***************************************************************************)
Abs(n) == IF n < 0 THEN -n ELSE n

Max(a, b) == IF a >= b THEN a ELSE b

Min(a, b) == IF a <= b THEN a ELSE b

RECURSIVE GCD(_, _)
GCD(a, b) == IF b = 0 THEN a ELSE GCD(b, a % b)

Norm(n, d) ==
    LET g == GCD(Abs(n), Abs(d))
        s == IF d < 0 THEN -1 ELSE 1
    IN  <<s * (n \div g), s * (d \div g)>>

Q(n) == <<n, 1>>

\* sums over the least common denominator
RAdd(a, b) ==
    LET g == GCD(a[2], b[2])
    IN  Norm(a[1] * (b[2] \div g) + b[1] * (a[2] \div g), (a[2] \div g) * b[2])

RSub(a, b) == RAdd(a, <<-b[1], b[2]>>)

RMul(a, b) ==
    LET g1 == GCD(Abs(a[1]), b[2])
        g2 == GCD(Abs(b[1]), a[2])
    IN  Norm((a[1] \div g1) * (b[1] \div g2), (a[2] \div g2) * (b[2] \div g1))

\* floor of a rational
RFloor(a) == a[1] \div a[2]

\* a <= b, comparing the integer parts before the fractions
RLe(a, b) ==
    LET fa == RFloor(a)
        fb == RFloor(b)
    IN  IF fa # fb THEN fa < fb
        ELSE (a[1] - fa * a[2]) * b[2] <= (b[1] - fb * b[2]) * a[2]

RLt(a, b) == ~RLe(b, a)

\* v ** 2
RSq(a) == <<a[1] * a[1], a[2] * a[2]>>

\* largest k in lo..hi with k * k <= x  (lo * lo <= x assumed)
RECURSIVE IsqrtIn(_, _, _)
IsqrtIn(x, lo, hi) ==
    IF lo >= hi THEN lo
    ELSE LET mid == (lo + hi + 1) \div 2
         IN  IF mid * mid <= x THEN IsqrtIn(x, mid, hi)
                               ELSE IsqrtIn(x, lo, mid - 1)

Isqrt(x) == IsqrtIn(x, 0, Min(x, 46340))

\* round(v, 2) of a float v, in hundredths: nearest, ties to even
round2(v) ==
    LET m   == Hundredths * v[1]
        q   == m \div v[2]
        rem == m % v[2]
    IN  IF 2 * rem < v[2] THEN q
        ELSE IF 2 * rem > v[2] THEN q + 1
        ELSE IF q % 2 = 0 THEN q ELSE q + 1

\* round(s ** 0.5, 2) of a squared distance s, in hundredths
round2sqrt(s) ==
    LET f == Isqrt(RFloor(<<Hundredths * Hundredths * s[1], s[2]>>))
        \* 100 * sqrt(s) compared with f + 1/2
        lhs == 4 * Hundredths * Hundredths * s[1]
        rhs == (2 * f + 1) * (2 * f + 1) * s[2]
    IN  IF lhs < rhs THEN f
        ELSE IF lhs > rhs THEN f + 1
        ELSE IF f % 2 = 0 THEN f ELSE f + 1

(***************************************************************************)
(* utils.parse_time and datetime formatting.  A timestamp string is        *)
(* [fmt |-> "T", at |-> instant] when it is well-formed ISO-8601 and        *)
(* [fmt |-> "H", at |-> instant] when it is a bare HH:MM:SS, at being that *)
(* time of day on the current date; any other fmt is a string that         *)
(* fromisoformat and strptime reject.                                      *)
(***************************************************************************)
VARIABLE now             \* datetime.now(): the wall clock during the call
VARIABLE now_advances    \* a read of datetime.now() is later than the read before it

\* the days from 1 January 1900, the date strptime gives a string without
\* one, to the current date; a small number stands for the real one, which
\* takes the instants out of 32 bits
DaysSince1900 == 2

SecondsPerDay == 86400

\* utils.parse_time: the instant an ISO-8601 string denotes, the time of day
\* on 1 January 1900 for a bare HH:MM:SS, and the current time for a string
\* that raises ValueError
parse_time(timestamp) ==
    IF timestamp.fmt = "T" THEN timestamp.at
    ELSE IF timestamp.fmt = "H"
    THEN timestamp.at - DaysSince1900 * SecondsPerDay * TicksPerSecond
    ELSE now

\* both strings raise ValueError: parse_time reads the clock for the first
\* and then for the second
both_unparsed(wp1, wp2) ==
    /\ wp1.timestamp.fmt \notin {"T", "H"}
    /\ wp2.timestamp.fmt \notin {"T", "H"}

\* (end_time - start_time).total_seconds() <= 0 in interpolate_waypoints.
\* Between two reads of the clock less than a tick passes: their difference
\* is positive when the clock has advanced from one to the other, and
\* int(duration / step_seconds) is 0 all the same.
not_positive(wp1, wp2) ==
    /\ parse_time(wp2.timestamp) - parse_time(wp1.timestamp) <= 0
    /\ ~(both_unparsed(wp1, wp2) /\ now_advances)

\* datetime.isoformat(): keeps the fraction of a second
isoformat(t) == [fmt |-> "T", at |-> t]

\* datetime.strftime('%Y-%m-%dT%H:%M:%S'): drops the fraction of a second
strftime(t) == [fmt |-> "T", at |-> (t \div TicksPerSecond) * TicksPerSecond]

(***************************************************************************)
(* utils.interpolate_waypoints                                             *)
(***************************************************************************)
\* an interpolation that leaves the end of the segment to the next segment
interpolate_waypoints_half_open(wp1, wp2, step) ==
    LET start_time == parse_time(wp1.timestamp)
        end_time   == parse_time(wp2.timestamp)
        duration   == end_time - start_time
    IN  IF not_positive(wp1, wp2) THEN <<wp1>>
        ELSE
          LET num_steps == Max(1, duration \div (step * TicksPerSecond))
          IN  [k \in 1..num_steps |->
                LET i == k - 1
                    t == Norm(i, num_steps)
                    interpolated_time == start_time + i * step * TicksPerSecond
                IN  IF "position" \in DOMAIN wp1
                    THEN [position |->
                            [c \in 1..3 |-> RAdd(wp1.position[c],
                               RMul(t, RSub(wp2.position[c], wp1.position[c])))],
                          timestamp |-> isoformat(interpolated_time)]
                    ELSE [x |-> RAdd(wp1.x, RMul(t, RSub(wp2.x, wp1.x))),
                          y |-> RAdd(wp1.y, RMul(t, RSub(wp2.y, wp1.y))),
                          z |-> RAdd(wp1.z, RMul(t, RSub(wp2.z, wp1.z))),
                          timestamp |-> isoformat(interpolated_time)]]

\* an interpolation that counts one step more than the segment holds
interpolate_waypoints_extra_step(wp1, wp2, step) ==
    LET start_time == parse_time(wp1.timestamp)
        end_time   == parse_time(wp2.timestamp)
        duration   == end_time - start_time
    IN  IF not_positive(wp1, wp2) THEN <<wp1>>
        ELSE
          LET num_steps == Max(1, duration \div (step * TicksPerSecond)) + 1
          IN  [k \in 1..(num_steps + 1) |->
                LET i == k - 1
                    t == Norm(i, num_steps)
                    interpolated_time == start_time + i * step * TicksPerSecond
                IN  IF "position" \in DOMAIN wp1
                    THEN [position |->
                            [c \in 1..3 |-> RAdd(wp1.position[c],
                               RMul(t, RSub(wp2.position[c], wp1.position[c])))],
                          timestamp |-> isoformat(interpolated_time)]
                    ELSE [x |-> RAdd(wp1.x, RMul(t, RSub(wp2.x, wp1.x))),
                          y |-> RAdd(wp1.y, RMul(t, RSub(wp2.y, wp1.y))),
                          z |-> RAdd(wp1.z, RMul(t, RSub(wp2.z, wp1.z))),
                          timestamp |-> isoformat(interpolated_time)]]

interpolate_waypoints(wp1, wp2, step) ==
    LET start_time == parse_time(wp1.timestamp)
        end_time   == parse_time(wp2.timestamp)
        duration   == end_time - start_time
    IN  IF not_positive(wp1, wp2) THEN <<wp1>>
        ELSE
          LET num_steps == Max(1, duration \div (step * TicksPerSecond))
          IN  [k \in 1..(num_steps + 1) |->
                LET i == k - 1
                    t == Norm(i, num_steps)
                    interpolated_time == start_time + i * step * TicksPerSecond
                IN  IF "position" \in DOMAIN wp1
                    THEN [position |->
                            [c \in 1..3 |-> RAdd(wp1.position[c],
                               RMul(t, RSub(wp2.position[c], wp1.position[c])))],
                          timestamp |-> isoformat(interpolated_time)]
                    ELSE [x |-> RAdd(wp1.x, RMul(t, RSub(wp2.x, wp1.x))),
                          y |-> RAdd(wp1.y, RMul(t, RSub(wp2.y, wp1.y))),
                          z |-> RAdd(wp1.z, RMul(t, RSub(wp2.z, wp1.z))),
                          timestamp |-> isoformat(interpolated_time)]]

\* interpolate_waypoints raises KeyError: the loop body reads wp1["z"] and
\* wp2["z"] of named-field waypoints, which the early return for
\* duration <= 0 comes before
interpolate_raises(wp1, wp2) ==
    /\ ~not_positive(wp1, wp2)
    /\ "position" \notin DOMAIN wp1
    /\ "z" \notin DOMAIN wp1 \/ "z" \notin DOMAIN wp2

(***************************************************************************)
(* conflict_checker.generate_continuous_path                               *)
(***************************************************************************)
\* generate_continuous_path raises: one of its segments does
generate_raises(mission_or_flight) ==
    \E i \in 1..(Len(mission_or_flight.waypoints) - 1) :
        interpolate_raises(mission_or_flight.waypoints[i],
                           mission_or_flight.waypoints[i + 1])

RECURSIVE path_segments(_, _, _)
path_segments(waypoints, i, step) ==
    IF i > Len(waypoints) - 1 THEN <<>>
    ELSE interpolate_waypoints(waypoints[i], waypoints[i + 1], step)
           \o path_segments(waypoints, i + 1, step)

\* a path left without the final waypoint
generate_continuous_path_open(mission_or_flight, step) ==
    path_segments(mission_or_flight.waypoints, 1, step)

generate_continuous_path(mission_or_flight, step) ==
    LET waypoints == mission_or_flight.waypoints
        continuous_path == path_segments(waypoints, 1, step)
    IN  IF waypoints # <<>>
        THEN Append(continuous_path, waypoints[Len(waypoints)])
        ELSE continuous_path

(***************************************************************************)
(* conflict_checker.get_drone_position_at_time                             *)
(***************************************************************************)
\* the absent position (Python None)
None == [none |-> TRUE]

IsNone(pos) == "none" \in DOMAIN pos

\* get_coords / get_position_coords: <<x, y, z>> of either encoding
get_coords(point) ==
    IF "position" \in DOMAIN point
    THEN <<point.position[1], point.position[2], point.position[3]>>
    ELSE <<point.x, point.y, IF "z" \in DOMAIN point THEN point.z ELSE Q(0)>>

\* the scan for the bracketing waypoints.  The loop stops at the first point
\* later than target_time (after_point) and before_point is the point just
\* before it, every earlier point having set before_point in turn; without
\* such a point before_point is the last point.  The first such index in
\* lo..hi, 0 when there is none, is found by halving the range.
RECURSIVE first_after(_, _, _, _)
first_after(drone_path, target_time, lo, hi) ==
    IF lo = hi
    THEN IF parse_time(drone_path[lo].timestamp) > target_time THEN lo ELSE 0
    ELSE LET mid == (lo + hi) \div 2
             l   == first_after(drone_path, target_time, lo, mid)
         IN  IF l # 0 THEN l ELSE first_after(drone_path, target_time, mid + 1, hi)

\* brackets that take a drone past its last point for one not active
find_brackets_until_end(drone_path, target_time) ==
    LET a == first_after(drone_path, target_time, 1, Len(drone_path))
    IN  IF a = 0 THEN <<0, 0>> ELSE <<a - 1, a>>

\* brackets that end at the last point of the path
find_brackets_to_last(drone_path, target_time) ==
    LET a == first_after(drone_path, target_time, 1, Len(drone_path))
    IN  IF a = 0 THEN <<Len(drone_path), 0>> ELSE <<a - 1, Len(drone_path)>>

\* <<before_point, after_point>> as indexes into a non-empty path, 0 for None
find_brackets(drone_path, target_time) ==
    LET a == first_after(drone_path, target_time, 1, Len(drone_path))
    IN  IF a = 0 THEN <<Len(drone_path), 0>> ELSE <<a - 1, a>>

get_drone_position_at_time(drone_path, target_time) ==
    IF drone_path = <<>> THEN None
    ELSE
      LET br == find_brackets(drone_path, target_time)
      IN  IF br[1] = 0 THEN None
          ELSE
            LET before_point == drone_path[br[1]]
                before == get_coords(before_point)
            IN  IF br[2] = 0
                THEN [x |-> before[1], y |-> before[2], z |-> before[3],
                      timestamp |-> target_time]
                ELSE
                  LET after_point  == drone_path[br[2]]
                      after        == get_coords(after_point)
                      before_time  == parse_time(before_point.timestamp)
                      after_time   == parse_time(after_point.timestamp)
                      total_time   == after_time - before_time
                      elapsed_time == target_time - before_time
                  IN  IF total_time = 0
                      THEN [x |-> before[1], y |-> before[2], z |-> before[3],
                            timestamp |-> target_time]
                      ELSE
                        LET factor == Norm(elapsed_time, total_time)
                        IN  [x |-> RAdd(before[1], RMul(factor, RSub(after[1], before[1]))),
                             y |-> RAdd(before[2], RMul(factor, RSub(after[2], before[2]))),
                             z |-> RAdd(before[3], RMul(factor, RSub(after[3], before[3]))),
                             timestamp |-> target_time]

(***************************************************************************)
(* conflict_checker.detect_path_conflicts: the pieces of one sweep step    *)
(***************************************************************************)
\* (primary - sim) squared distance: distance ** 2
distance_sq(p, s) ==
    RAdd(RAdd(RSq(RSub(p[1], s[1])), RSq(RSub(p[2], s[2]))), RSq(RSub(p[3], s[3])))

\* a test against twice the safety distance
within_safety_doubled(dsq, safety) ==
    /\ safety[1] >= 0
    /\ RLe(dsq, RSq(<<2 * safety[1], safety[2]>>))

\* distance <= safety_distance, on the square of the distance
within_safety(dsq, safety_distance) ==
    /\ safety_distance[1] >= 0
    /\ RLe(dsq, RSq(safety_distance))

\* the dictionary built for a sample in conflict; rounded values in hundredths
potential_conflict_at(sim_drone_id, primary_pos, sim_pos, current_time) ==
    LET p == get_coords(primary_pos)
        s == get_coords(sim_pos)
    IN  [conflicting_drone |-> sim_drone_id,
         drone_id          |-> sim_drone_id,
         location          |-> [x |-> round2(s[1]), y |-> round2(s[2]), z |-> round2(s[3])],
         primary_location  |-> [x |-> round2(p[1]), y |-> round2(p[2]), z |-> round2(p[3])],
         time              |-> strftime(current_time),
         primary_time      |-> strftime(current_time),
         sim_time          |-> strftime(current_time),
         distance          |-> round2sqrt(distance_sq(p, s)),
         time_difference   |-> 0,
         timestamp_obj     |-> current_time]

\* (dx**2 + dy**2 + dz**2) ** 0.5 <= bound on integers, each term bounded
\* before it is squared
hypot_le(dx, dy, dz, bound) ==
    /\ Abs(dx) <= bound
    /\ Abs(dy) <= bound
    /\ Abs(dz) <= bound
    /\ dx * dx + dy * dy + dz * dz <= bound * bound

\* a rule that groups on time alone
same_zone_time_only(potential_conflict, existing) ==
    Abs(potential_conflict.timestamp_obj - existing.timestamp_obj)
        <= dedup_seconds * TicksPerSecond

\* a rule that groups on location alone
same_zone_place_only(potential_conflict, existing) ==
    LET a == potential_conflict.primary_location
        b == existing.primary_location
    IN  hypot_le(a.x - b.x, a.y - b.y, a.z - b.z, dedup_distance * Hundredths)

\* a rule that takes "and" for "or"
same_zone_both(potential_conflict, existing) ==
    /\ same_zone_time_only(potential_conflict, existing)
    /\ same_zone_place_only(potential_conflict, existing)

\* a rule with a four times wider zone
same_zone_wide(potential_conflict, existing) ==
    LET a == potential_conflict.primary_location
        b == existing.primary_location
    IN  \/ same_zone_time_only(potential_conflict, existing)
        \/ hypot_le(a.x - b.x, a.y - b.y, a.z - b.z, 4 * dedup_distance * Hundredths)

\* if time_diff <= 120 or spatial_distance <= 50
same_zone(potential_conflict, existing) ==
    LET time_diff == Abs(potential_conflict.timestamp_obj - existing.timestamp_obj)
        a == potential_conflict.primary_location
        b == existing.primary_location
    IN  \/ time_diff <= dedup_seconds * TicksPerSecond
        \/ hypot_le(a.x - b.x, a.y - b.y, a.z - b.z, dedup_distance * Hundredths)

\* a loop that passes over the first of the conflicts detected
is_new_conflict_but_first(potential_conflict, detected) ==
    \A k \in 2..Len(detected) : ~same_zone(potential_conflict, detected[k])

\* a loop that takes every event after the first for one already covered
is_new_conflict_once(potential_conflict, detected) ==
    detected = <<>>

\* the loop over detected_conflicts: is_new_conflict
is_new_conflict(potential_conflict, detected) ==
    \A k \in 1..Len(detected) : ~same_zone(potential_conflict, detected[k])

(***************************************************************************)
(* The queries the model is run on.                                        *)
(***************************************************************************)
\* n seconds after the reference instant, in ticks
Sec(n) == n * TicksPerSecond

\* a named-field waypoint at whole coordinates
WP(x, y, z, t) == [x |-> Q(x), y |-> Q(y), z |-> Q(z), timestamp |-> isoformat(t)]

\* a named-field waypoint without z
WPF(x, y, t) == [x |-> Q(x), y |-> Q(y), timestamp |-> isoformat(t)]

\* a named-field waypoint whose timestamp is not a time
WPX(x, y, z) == [x |-> Q(x), y |-> Q(y), z |-> Q(z),
                 timestamp |-> [fmt |-> "?", at |-> 0]]

\* a packed-array waypoint at whole coordinates
WPA(x, y, z, t) == [position |-> <<Q(x), Q(y), Q(z)>>, timestamp |-> isoformat(t)]

\* a named-field waypoint with a bare time of day, t after the reference
\* instant on the current date
WPH(x, y, z, t) == [x |-> Q(x), y |-> Q(y), z |-> Q(z),
                    timestamp |-> [fmt |-> "H", at |-> t]]

\* a named-field waypoint whose x is a fraction <<numerator, denominator>>
WPR(x, y, z, t) == [x |-> x, y |-> Q(y), z |-> Q(z), timestamp |-> isoformat(t)]

\* after every other trajectory has ended: 124 s at the origin, one second to
\* x = 50.004, five seconds there
Creep ==
    <<WP(0, 0, 0, Sec(200)), WP(0, 0, 0, Sec(324)),
      WPR(<<12501, 250>>, 0, 0, Sec(325)), WPR(<<12501, 250>>, 0, 0, Sec(330))>>

\* primary missions
PrimaryPool ==
    << \* hovering for 130 s
       [waypoints |-> <<WP(0, 0, 10, 0), WP(0, 0, 10, Sec(130))>>],
       \* 1 unit/s along x for 140 s
       [waypoints |-> <<WP(0, 0, 0, 0), WP(140, 0, 0, Sec(140))>>],
       \* a mission shorter than one interpolation step
       [waypoints |-> <<WP(0, 0, 10, 0), WP(0, 0, 10, 1)>>],
       \* a segment whose duration is not a whole number of steps
       [waypoints |-> <<WP(0, 0, 10, 0), WP(45, 0, 10, Sec(7) + 1)>>],
       \* waypoints listed against time
       [waypoints |-> <<WP(0, 0, 10, Sec(12)), WP(0, 0, 10, 0)>>],
       \* 11 units/s along x for 10 s, packed-array encoding
       [waypoints |-> <<WPA(0, 0, 0, 0), WPA(110, 0, 0, Sec(10))>>],
       \* no waypoint
       [waypoints |-> <<>>],
       \* a first waypoint without z
       [waypoints |-> <<WPF(0, 0, 0), WP(0, 0, 0, Sec(10))>>],
       \* two places 50.004 units apart, visited 125 s apart
       [waypoints |-> Creep],
       \* hovering for 120 s, given with bare times of day
       [waypoints |-> <<WPH(0, 0, 10, 0), WPH(0, 0, 10, Sec(120))>>] >>

\* simulated flights
FlightPool ==
    << [drone_id |-> "HOVER", waypoints |-> <<WP(0, 0, 10, 0), WP(0, 0, 10, Sec(130))>>],
       [drone_id |-> "FAR", waypoints |-> <<WP(100, 100, 10, 0), WP(100, 100, 10, Sec(120))>>],
       [drone_id |-> "NEAR", waypoints |-> <<WP(2, 1, 10, 0), WP(2, 1, 10, Sec(20))>>],
       [id |-> "LATE", waypoints |-> <<WP(0, 0, 10, Sec(130)), WP(0, 0, 10, Sec(140))>>],
       [drone_id |-> "WING", waypoints |-> <<WP(0, 1, 0, 0), WP(140, 1, 0, Sec(140))>>],
       [drone_id |-> "DASH", waypoints |-> <<WP(-30, 0, 10, 0), WP(70, 0, 10, Sec(10))>>],
       [drone_id |-> "HALF", waypoints |-> <<WP(0, 0, 10, 1), WP(0, 0, 10, Sec(5))>>],
       [drone_id |-> "POST", waypoints |-> <<WP(34, 0, 10, 0), WP(34, 0, 10, Sec(5))>>],
       [drone_id |-> "WEAVE", waypoints |->
           <<WP(0, 1, 0, 0), WP(5, 1, 0, Sec(5)), WP(70, 60, 0, Sec(70)),
             WP(130, 1, 0, Sec(130)), WP(140, 1, 0, Sec(140))>>],
       [drone_id |-> "SPRINT", id |-> "S2", waypoints |->
           <<WPA(0, 1, 0, 0), WPA(110, 1, 0, Sec(10))>>],
       [waypoints |-> <<WP(0, 0, 10, Sec(3))>>],
       [waypoints |-> <<>>],
       \* two flights without identifier
       [waypoints |-> <<WP(0, 0, 10, 0), WP(0, 0, 10, Sec(10))>>],
       [waypoints |-> <<WP(1, 0, 10, 0), WP(1, 0, 10, Sec(10))>>],
       \* waypoints without z
       [drone_id |-> "FLAT", waypoints |-> <<WPF(1, 0, 0), WPF(1, 0, Sec(10))>>],
       \* hovering at exactly the default safety distance from (0,0,10)
       [drone_id |-> "EDGE", waypoints |-> <<WP(2, 0, 10, 0), WP(2, 0, 10, Sec(10))>>],
       \* a second waypoint whose timestamp is not a time
       [drone_id |-> "LOST", waypoints |-> <<WP(0, 0, 10, 0), WPX(0, 0, 10)>>],
       \* a flight on the track of the creeping primary mission
       [drone_id |-> "SHADOW", waypoints |-> Creep],
       \* hovering for 120 s, given with bare times of day
       [drone_id |-> "BARE", waypoints |-> <<WPH(0, 0, 10, 0), WPH(0, 0, 10, Sec(120))>>],
       \* two waypoints with one timestamp, which is not a time
       [drone_id |-> "UNDATED", waypoints |-> <<WPX(0, 0, 10), WPX(0, 0, 10)>>] >>

\* a list in the opposite order
Reverse(s) == [i \in DOMAIN s |-> s[Len(s) + 1 - i]]

\* the lists of simulated flights: up to MaxFlights consecutive flights of
\* the pool, in pool order or in the opposite order, and one flight listed
\* several times
FlightLists ==
    LET K == Len(FlightPool)
        Runs == {r \in (1..K) \X (1..K) : r[1] <= r[2] /\ r[2] - r[1] < MaxFlights}
        Forward == {SubSeq(FlightPool, r[1], r[2]) : r \in Runs}
        Repeated == {[i \in 1..n |-> FlightPool[k]] : k \in 1..K, n \in 2..MaxFlights}
    IN  {<<>>} \cup Forward \cup {Reverse(s) : s \in Forward} \cup Repeated

\* the wall clock at the first call and at a later call of one query: 20 s
\* and a tick before the reference instant, and as much after it
CallTimes == <<-(Sec(20) + 1), Sec(20) + 1>>

\* interpolate_waypoints reads the clock twice for a segment of the trajectory
reads_clock_twice(trajectory) ==
    \E i \in 1..(Len(trajectory.waypoints) - 1) :
        both_unparsed(trajectory.waypoints[i], trajectory.waypoints[i + 1])

\* a clock whose successive reads differ, as with microseconds, and, for the
\* trajectories that have it read twice, a clock whose reads within a call
\* return one value, as with a coarse timer
ClockPool(trajectories) ==
    IF \E i \in DOMAIN trajectories : reads_clock_twice(trajectories[i])
    THEN BOOLEAN
    ELSE {TRUE}

\* safety distances: the default 2, and 2.2375
SafetyPool == {Q(2), <<179, 80>>}

(***************************************************************************)
(* State                                                                   *)
(***************************************************************************)
VARIABLES
    primary_mission,     \* argument of check_deconfliction
    simulated_flights,   \* argument of check_deconfliction
    safety_distance,     \* argument of check_deconfliction
    pc,                  \* position in check_deconfliction
    conflicts,           \* check_deconfliction: conflicts
    primary_path,        \* check_deconfliction: primary_path
    flight,              \* index of sim_flight in simulated_flights
    sim_path,            \* check_deconfliction: sim_path
    drone_id,            \* check_deconfliction: drone_id
    start_time,          \* detect_path_conflicts: start_time
    end_time,            \* detect_path_conflicts: end_time
    current_time,        \* detect_path_conflicts: current_time
    flight_conflicts,    \* detect_path_conflicts: conflicts, returned as flight_conflicts
    detected_conflicts,  \* detect_path_conflicts: detected_conflicts
    result,              \* value returned by check_deconfliction
    mission_or_flight,   \* argument of generate_continuous_path called alone
    step,                \* generate_continuous_path: step_seconds
    drone_path,          \* argument of get_drone_position_at_time called alone
    target_time,         \* argument of get_drone_position_at_time
    position,            \* value returned by get_drone_position_at_time
    earlier,             \* value an earlier call with the same arguments returned
    primary_waypoints,   \* PrimaryDronePlotter: self.primary_waypoints
    primary_start_time,  \* PrimaryDronePlotter: self.primary_start_time
    primary_end_time,    \* PrimaryDronePlotter: self.primary_end_time
    other_drones         \* PrimaryDronePlotter: self.other_drones

vars == <<primary_mission, simulated_flights, safety_distance, pc, conflicts,
          primary_path, flight, sim_path, drone_id, start_time, end_time,
          current_time, flight_conflicts, detected_conflicts, result,
          mission_or_flight, step, drone_path, target_time, position,
          now, now_advances, earlier, primary_waypoints, primary_start_time, primary_end_time,
          other_drones>>

\* the fields of the mission editor
editor == <<primary_waypoints, primary_start_time, primary_end_time, other_drones>>

\* the wall clock and the result of the earlier call
calls == <<now, earlier, now_advances>>

\* the variables of the functions called on their own
query == <<mission_or_flight, step, drone_path, target_time, position>>

inputs == <<primary_mission, simulated_flights, safety_distance>>

\* no value returned yet
NoResult == [status |-> "none", details |-> <<>>]

Init ==
    /\ primary_mission \in {PrimaryPool[i] : i \in DOMAIN PrimaryPool}
    /\ simulated_flights \in FlightLists
    /\ safety_distance \in SafetyPool
    /\ pc = "call"
    /\ conflicts = <<>>
    /\ primary_path = <<>>
    /\ flight = 1
    /\ sim_path = <<>>
    /\ drone_id = ""
    /\ start_time = 0
    /\ end_time = 0
    /\ current_time = 0
    /\ flight_conflicts = <<>>
    /\ detected_conflicts = <<>>
    /\ result = NoResult
    /\ mission_or_flight = [waypoints |-> <<>>]
    /\ step = step_seconds
    /\ drone_path = <<>>
    /\ target_time = 0
    /\ position = None
    /\ now = CallTimes[1]
    /\ now_advances \in ClockPool(<<primary_mission>> \o simulated_flights)
    /\ earlier = NoResult
    /\ primary_waypoints = <<>>
    /\ primary_start_time = isoformat(0)
    /\ primary_end_time = isoformat(0)
    /\ other_drones = <<>>

(***************************************************************************)
(* conflict_checker.check_deconfliction and detect_path_conflicts          *)
(***************************************************************************)
\* sim_flight.get('drone_id', sim_flight.get('id', 'Unknown_Drone'))
resolve_drone_id(sim_flight) ==
    IF "drone_id" \in DOMAIN sim_flight THEN sim_flight.drone_id
    ELSE IF "id" \in DOMAIN sim_flight THEN sim_flight.id
    ELSE "Unknown_Drone"

\* [parse_time(wp['timestamp']) for wp in path]
path_times(path) == [k \in DOMAIN path |-> parse_time(path[k].timestamp)]

\* min(times[lo..hi]) and max(times[lo..hi]), by halving the range
RECURSIVE min_range(_, _, _)
min_range(times, lo, hi) ==
    IF lo = hi THEN times[lo]
    ELSE LET mid == (lo + hi) \div 2
         IN  Min(min_range(times, lo, mid), min_range(times, mid + 1, hi))

RECURSIVE max_range(_, _, _)
max_range(times, lo, hi) ==
    IF lo = hi THEN times[lo]
    ELSE LET mid == (lo + hi) \div 2
         IN  Max(max_range(times, lo, mid), max_range(times, mid + 1, hi))

\* min(times), max(times) of a non-empty list
min_time(times) == min_range(times, 1, Len(times))

max_time(times) == max_range(times, 1, Len(times))

\* a window that opens when the first of the two drones starts
window_start_earliest(p_path, s_path) ==
    Min(min_time(path_times(p_path)), min_time(path_times(s_path)))

\* start_time = max(min(primary_times), min(sim_times))
window_start(p_path, s_path) ==
    Max(min_time(path_times(p_path)), min_time(path_times(s_path)))

\* end_time = min(max(primary_times), max(sim_times))
window_end(p_path, s_path) ==
    Min(max_time(path_times(p_path)), max_time(path_times(s_path)))

\* if not primary_times or not sim_times ... if start_time >= end_time
no_overlap(p_path, s_path) ==
    IF p_path = <<>> \/ s_path = <<>> THEN TRUE
    ELSE window_start(p_path, s_path) >= window_end(p_path, s_path)

\* the exception a call ends with
Raised(exception) == [status |-> exception, details |-> <<>>]

\* check_deconfliction ends with the KeyError of the primary's path
CallRaises ==
    /\ pc = "call"
    /\ generate_raises(primary_mission)
    /\ result' = Raised("KeyError")
    /\ pc' = "raised"
    /\ UNCHANGED <<inputs, query, calls, editor, conflicts, primary_path, flight, sim_path, drone_id,
                   start_time, end_time, current_time, flight_conflicts,
                   detected_conflicts>>

\* check_deconfliction ends with the KeyError of a simulated flight's path
ScanRaises ==
    /\ pc = "for"
    /\ flight <= Len(simulated_flights)
    /\ generate_raises(simulated_flights[flight])
    /\ result' = Raised("KeyError")
    /\ pc' = "raised"
    /\ UNCHANGED <<inputs, query, calls, editor, conflicts, primary_path, flight, sim_path, drone_id,
                   start_time, end_time, current_time, flight_conflicts,
                   detected_conflicts>>

\* check_deconfliction up to the loop over the simulated flights
Call ==
    /\ pc = "call"
    /\ ~generate_raises(primary_mission)
    /\ conflicts' = <<>>
    /\ primary_path' = generate_continuous_path(primary_mission, step_seconds)
    /\ flight' = 1
    /\ pc' = "for"
    /\ UNCHANGED <<inputs, query, calls, editor, sim_path, drone_id, start_time, end_time, current_time,
                   flight_conflicts, detected_conflicts, result>>

\* a scan that drops the reports kept so far when the flight has no waypoint
ScanNoOverlap_forgetful ==
    /\ pc = "for"
    /\ flight <= Len(simulated_flights)
    /\ ~generate_raises(simulated_flights[flight])
    /\ LET sim_flight == simulated_flights[flight]
           path == generate_continuous_path(sim_flight, step_seconds)
       IN  /\ no_overlap(primary_path, path)
           /\ sim_path' = path
           /\ drone_id' = resolve_drone_id(sim_flight)
           /\ IF primary_path = <<>> \/ path = <<>>
              THEN UNCHANGED <<start_time, end_time>>
              ELSE /\ start_time' = window_start(primary_path, path)
                   /\ end_time' = window_end(primary_path, path)
    /\ flight_conflicts' = <<>>
    /\ detected_conflicts' = <<>>
    /\ conflicts' = IF simulated_flights[flight].waypoints = <<>> THEN <<>> ELSE conflicts
    /\ flight' = flight + 1
    /\ UNCHANGED <<inputs, query, calls, editor, pc, primary_path, current_time, result>>

\* one simulated flight whose scan returns before the sweep
ScanNoOverlap ==
    /\ pc = "for"
    /\ flight <= Len(simulated_flights)
    /\ ~generate_raises(simulated_flights[flight])
    /\ LET sim_flight == simulated_flights[flight]
           path == generate_continuous_path(sim_flight, step_seconds)
       IN  /\ no_overlap(primary_path, path)
           /\ sim_path' = path
           /\ drone_id' = resolve_drone_id(sim_flight)
           /\ IF primary_path = <<>> \/ path = <<>>
              THEN UNCHANGED <<start_time, end_time>>
              ELSE /\ start_time' = window_start(primary_path, path)
                   /\ end_time' = window_end(primary_path, path)
    /\ flight_conflicts' = <<>>
    /\ detected_conflicts' = <<>>
    /\ conflicts' = conflicts \o <<>>
    /\ flight' = flight + 1
    /\ UNCHANGED <<inputs, query, calls, editor, pc, primary_path, current_time, result>>

\* a scan that starts from the reports kept for the flights before it
ScanBegin_shared ==
    /\ pc = "for"
    /\ flight <= Len(simulated_flights)
    /\ ~generate_raises(simulated_flights[flight])
    /\ LET sim_flight == simulated_flights[flight]
           path == generate_continuous_path(sim_flight, step_seconds)
       IN  /\ ~no_overlap(primary_path, path)
           /\ sim_path' = path
           /\ drone_id' = resolve_drone_id(sim_flight)
           /\ start_time' = window_start(primary_path, path)
           /\ end_time' = window_end(primary_path, path)
           /\ current_time' = window_start(primary_path, path)
    /\ flight_conflicts' = <<>>
    /\ detected_conflicts' = conflicts
    /\ pc' = "while"
    /\ UNCHANGED <<inputs, query, calls, editor, conflicts, primary_path, flight, result>>

\* one simulated flight whose scan enters the sweep
ScanBegin ==
    /\ pc = "for"
    /\ flight <= Len(simulated_flights)
    /\ ~generate_raises(simulated_flights[flight])
    /\ LET sim_flight == simulated_flights[flight]
           path == generate_continuous_path(sim_flight, step_seconds)
       IN  /\ ~no_overlap(primary_path, path)
           /\ sim_path' = path
           /\ drone_id' = resolve_drone_id(sim_flight)
           /\ start_time' = window_start(primary_path, path)
           /\ end_time' = window_end(primary_path, path)
           /\ current_time' = window_start(primary_path, path)
    /\ flight_conflicts' = <<>>
    /\ detected_conflicts' = <<>>
    /\ pc' = "while"
    /\ UNCHANGED <<inputs, query, calls, editor, conflicts, primary_path, flight, result>>

\* the sample of the sweep at an instant: None, or the dictionary built when
\* distance <= safety_distance
sample_at(p_path, s_path, id, safety, t) ==
    LET primary_pos == get_drone_position_at_time(p_path, t)
        sim_pos     == get_drone_position_at_time(s_path, t)
    IN  IF IsNone(primary_pos) \/ IsNone(sim_pos) THEN None
        ELSE IF within_safety(distance_sq(get_coords(primary_pos), get_coords(sim_pos)), safety)
             THEN potential_conflict_at(id, primary_pos, sim_pos, t)
             ELSE None

\* an iteration that lets a later event of a zone replace the zone's report
SweepStep_keep_latest ==
    /\ pc = "while"
    /\ current_time <= end_time
    /\ LET potential_conflict ==
               sample_at(primary_path, sim_path, drone_id, safety_distance, current_time)
           last == Len(flight_conflicts)
       IN  IF IsNone(potential_conflict)
           THEN UNCHANGED <<flight_conflicts, detected_conflicts>>
           ELSE IF is_new_conflict(potential_conflict, detected_conflicts)
           THEN /\ flight_conflicts' = Append(flight_conflicts, potential_conflict)
                /\ detected_conflicts' = Append(detected_conflicts, potential_conflict)
           ELSE /\ flight_conflicts' = [flight_conflicts EXCEPT ![last] = potential_conflict]
                /\ detected_conflicts' = [detected_conflicts EXCEPT ![last] = potential_conflict]
    /\ current_time' = current_time + check_interval * TicksPerSecond
    /\ UNCHANGED <<inputs, query, calls, editor, pc, conflicts, primary_path, flight, sim_path, drone_id,
                   start_time, end_time, result>>

\* one iteration of the sweep
SweepStep ==
    /\ pc = "while"
    /\ current_time <= end_time
    /\ LET potential_conflict ==
               sample_at(primary_path, sim_path, drone_id, safety_distance, current_time)
       IN  IF ~IsNone(potential_conflict)
              /\ is_new_conflict(potential_conflict, detected_conflicts)
           THEN /\ flight_conflicts' = Append(flight_conflicts, potential_conflict)
                /\ detected_conflicts' = Append(detected_conflicts, potential_conflict)
           ELSE UNCHANGED <<flight_conflicts, detected_conflicts>>
    /\ current_time' = current_time + check_interval * TicksPerSecond
    /\ UNCHANGED <<inputs, query, calls, editor, pc, conflicts, primary_path, flight, sim_path, drone_id,
                   start_time, end_time, result>>

\* a sweep that stops on reaching the end of the window
SweepEnd_early ==
    /\ pc = "while"
    /\ current_time >= end_time
    /\ conflicts' = conflicts \o flight_conflicts
    /\ flight' = flight + 1
    /\ pc' = "for"
    /\ UNCHANGED <<inputs, query, calls, editor, primary_path, sim_path, drone_id, start_time, end_time,
                   current_time, flight_conflicts, detected_conflicts, result>>

\* the sweep is over: the scan returns and its reports are accumulated
SweepEnd ==
    /\ pc = "while"
    /\ current_time > end_time
    /\ conflicts' = conflicts \o flight_conflicts
    /\ flight' = flight + 1
    /\ pc' = "for"
    /\ UNCHANGED <<inputs, query, calls, editor, primary_path, sim_path, drone_id, start_time, end_time,
                   current_time, flight_conflicts, detected_conflicts, result>>

\* a status that needs more than one report to be "conflict"
status_of_several(details) == IF Len(details) > 1 THEN "conflict" ELSE "clear"

\* "status": "conflict" if conflicts else "clear"
status_of(details) == IF details # <<>> THEN "conflict" ELSE "clear"

\* check_deconfliction returns
Return ==
    /\ pc = "for"
    /\ flight > Len(simulated_flights)
    /\ result' = [status |-> status_of(conflicts), details |-> conflicts]
    /\ pc' = "done"
    /\ UNCHANGED <<inputs, query, calls, editor, conflicts, primary_path, flight, sim_path, drone_id,
                   start_time, end_time, current_time, flight_conflicts,
                   detected_conflicts>>

\* the query is made again later, with the same arguments
Again ==
    /\ pc = "done"
    /\ earlier = NoResult
    /\ Len(simulated_flights) <= 1
    /\ earlier' = result
    /\ now' = CallTimes[2]
    /\ now_advances' = now_advances
    /\ pc' = "call"
    /\ conflicts' = <<>>
    /\ primary_path' = <<>>
    /\ flight' = 1
    /\ sim_path' = <<>>
    /\ drone_id' = ""
    /\ start_time' = 0
    /\ end_time' = 0
    /\ current_time' = 0
    /\ flight_conflicts' = <<>>
    /\ detected_conflicts' = <<>>
    /\ result' = NoResult
    /\ UNCHANGED <<inputs, query, editor>>

Next ==
    \/ Call
    \/ Again
    \/ CallRaises
    \/ ScanRaises
    \/ ScanNoOverlap
    \/ ScanBegin
    \/ SweepStep
    \/ SweepEnd
    \/ Return

Spec == Init /\ [][Next]_vars

(***************************************************************************)
(* generate_continuous_path and get_drone_position_at_time called on       *)
(* their own, with any step and any target time.                           *)
(***************************************************************************)
MaxStep == 3

MaxQuerySeconds == 10

\* the trajectories the two functions are run on
TrajPool ==
    { \* one segment of 5 s
      [waypoints |-> <<WP(0, 0, 10, 0), WP(10, 0, 10, Sec(5))>>],
      \* two segments with a turn, starting 1 s after the reference instant
      [waypoints |-> <<WP(0, 0, 0, Sec(1)), WP(6, 0, 0, Sec(4)), WP(6, 8, 4, Sec(8))>>],
      \* a segment shorter than any step, then a longer one
      [waypoints |-> <<WP(0, 0, 10, 0), WP(1, 0, 10, 1), WP(5, 0, 10, Sec(3))>>],
      \* a segment whose duration is not a whole number of seconds
      [waypoints |-> <<WP(0, 0, 10, 0), WP(45, 0, 10, Sec(7) + 1)>>],
      \* waypoints listed against time
      [waypoints |-> <<WP(0, 0, 10, Sec(6)), WP(4, 0, 10, 0)>>],
      \* two waypoints at one instant
      [waypoints |-> <<WP(0, 0, 0, Sec(2)), WP(3, 0, 0, Sec(2)), WP(3, 4, 0, Sec(6))>>],
      \* packed-array encoding
      [waypoints |-> <<WPA(0, 0, 0, 0), WPA(12, 0, 6, Sec(6))>>],
      \* one waypoint
      [waypoints |-> <<WP(1, 2, 3, Sec(2))>>],
      \* no waypoint
      [waypoints |-> <<>>],
      \* the 300-second mission of the docstring
      [waypoints |-> <<WP(0, 0, 10, 0), WP(100, 100, 10, Sec(300))>>],
      \* waypoints without z
      [waypoints |-> <<WPF(0, 0, 0), WPF(4, 0, Sec(4))>>],
      \* waypoints without z at one instant
      [waypoints |-> <<WPF(0, 0, Sec(2)), WPF(4, 0, Sec(2))>>] }

StepPool == 1..MaxStep

QueryPool == 0..Sec(MaxQuerySeconds)

PathInit ==
    /\ mission_or_flight \in TrajPool
    /\ step \in StepPool
    /\ pc = "generate"
    /\ drone_path = <<>>
    /\ target_time = 0
    /\ position = None
    /\ primary_mission = [waypoints |-> <<>>]
    /\ simulated_flights = <<>>
    /\ safety_distance = Q(2)
    /\ conflicts = <<>>
    /\ primary_path = <<>>
    /\ flight = 1
    /\ sim_path = <<>>
    /\ drone_id = ""
    /\ start_time = 0
    /\ end_time = 0
    /\ current_time = 0
    /\ flight_conflicts = <<>>
    /\ detected_conflicts = <<>>
    /\ result = NoResult
    /\ now = CallTimes[1]
    /\ now_advances \in ClockPool(<<mission_or_flight>>)
    /\ earlier = NoResult
    /\ primary_waypoints = <<>>
    /\ primary_start_time = isoformat(0)
    /\ primary_end_time = isoformat(0)
    /\ other_drones = <<>>

\* path = generate_continuous_path(mission_or_flight, step)
Generate ==
    /\ pc = "generate"
    /\ ~generate_raises(mission_or_flight)
    /\ drone_path' = generate_continuous_path(mission_or_flight, step)
    /\ pc' = "query"
    /\ UNCHANGED <<inputs, calls, editor, conflicts, primary_path, flight, sim_path, drone_id,
                   start_time, end_time, current_time, flight_conflicts,
                   detected_conflicts, result, mission_or_flight, step,
                   target_time, position>>

\* generate_continuous_path ends with a KeyError
GenerateRaises ==
    /\ pc = "generate"
    /\ generate_raises(mission_or_flight)
    /\ pc' = "raised"
    /\ UNCHANGED <<inputs, calls, editor, conflicts, primary_path, flight, sim_path, drone_id,
                   start_time, end_time, current_time, flight_conflicts,
                   detected_conflicts, result, query>>

\* position = get_drone_position_at_time(path, target_time)
Query ==
    /\ pc \in {"query", "answered"}
    /\ \E t \in QueryPool :
          /\ target_time' = t
          /\ position' = get_drone_position_at_time(drone_path, t)
    /\ pc' = "answered"
    /\ UNCHANGED <<inputs, calls, editor, conflicts, primary_path, flight, sim_path, drone_id,
                   start_time, end_time, current_time, flight_conflicts,
                   detected_conflicts, result, mission_or_flight, step, drone_path>>

PathNext ==
    \/ Generate
    \/ GenerateRaises
    \/ Query

PathSpec == PathInit /\ [][PathNext]_vars

(***************************************************************************)
(* Properties                                                              *)
(***************************************************************************)
\* the scan of a simulated flight has just returned; its reports are
\* flight_conflicts and its path is sim_path
ScanReturned == pc = "for" /\ flight > 1

\* the simulated flight whose scan has just returned
LastFlight == simulated_flights[flight - 1]

\* the instants of the waypoints of a trajectory
wp_times(trajectory) == path_times(trajectory.waypoints)

\* latest start and earliest end of two non-empty trajectories
LatestStart(a, b) == Max(min_time(wp_times(a)), min_time(wp_times(b)))

EarliestEnd(a, b) == Min(max_time(wp_times(a)), max_time(wp_times(b)))

NonEmpty(trajectory) == trajectory.waypoints # <<>>

\* C1: check_deconfliction returns status "conflict" exactly when its details
\* list is non-empty and status "clear" exactly when it is empty, for every
\* primary trajectory, list of other trajectories and safety distance.
C1_StatusIffDetails ==
    pc = "done" =>
        /\ (result.status = "conflict") <=> (result.details # <<>>)
        /\ (result.status = "clear") <=> (result.details = <<>>)

C1_Witness ==
    /\ pc = "done"
    /\ result.status = "conflict"
    /\ Len(result.details) = 1

\* C2: when the primary and an other trajectory share no overlapping time
\* window (latest start >= earliest end of their waypoints' instants), the
\* scan of the pair produces no report, wherever the two trajectories are.
C2_NoOverlapNoReports ==
    ( /\ ScanReturned
      /\ NonEmpty(primary_mission)
      /\ NonEmpty(LastFlight)
      /\ LatestStart(primary_mission, LastFlight) >= EarliestEnd(primary_mission, LastFlight) )
    => flight_conflicts = <<>>

(***************************************************************************)
(* The motion the waypoints describe, for C3 and C4: positions by linear   *)
(* interpolation of the original waypoints, and the closest approach of    *)
(* two trajectories over their overlap window, computed exactly.           *)
(***************************************************************************)
\* the waypoints' instants increase strictly along the list
StrictlyTimed(trajectory) ==
    LET times == wp_times(trajectory)
    IN  \A k \in 1..(Len(times) - 1) : times[k] < times[k + 1]

\* position at instant t within the span of a strictly timed trajectory
LinearPosition(trajectory, t) ==
    LET w == trajectory.waypoints
        times == wp_times(trajectory)
        k == CHOOSE k \in 1..Len(w) : times[k] <= t /\ (k = Len(w) \/ t < times[k + 1])
    IN  IF k = Len(w) THEN get_coords(w[k])
        ELSE LET a == get_coords(w[k])
                 b == get_coords(w[k + 1])
                 f == Norm(t - times[k], times[k + 1] - times[k])
             IN  [c \in 1..3 |-> RAdd(a[c], RMul(f, RSub(b[c], a[c])))]

\* primary position minus other position at instant t
Separation(a, b, t) ==
    [c \in 1..3 |-> RSub(LinearPosition(a, t)[c], LinearPosition(b, t)[c])]

RDot(u, v) == RAdd(RAdd(RMul(u[1], v[1]), RMul(u[2], v[2])), RMul(u[3], v[3]))

RDiv(a, b) == Norm(a[1] * b[2], a[2] * b[1])

\* least squared length of r0 + s * (r1 - r0) over 0 <= s <= 1
ClosestSq(r0, r1) ==
    LET v  == [c \in 1..3 |-> RSub(r1[c], r0[c])]
        vv == RDot(v, v)
        rv == RDot(r0, v)
    IN  IF vv[1] = 0 \/ rv[1] >= 0 THEN RDot(r0, r0)
        ELSE IF RLe(vv, <<-rv[1], rv[2]>>) THEN RDot(r1, r1)
        ELSE RSub(RDot(r0, r0), RMul(rv, RDiv(rv, vv)))

\* the instants of the overlap window at which either motion may turn
Breakpoints(a, b) ==
    LET s == LatestStart(a, b)
        e == EarliestEnd(a, b)
        T == {wp_times(a)[k] : k \in DOMAIN a.waypoints}
               \cup {wp_times(b)[k] : k \in DOMAIN b.waypoints}
    IN  {s, e} \cup {t \in T : s < t /\ t < e}

\* the stretches of the overlap window on which both motions are linear
Pieces(a, b) ==
    LET B == Breakpoints(a, b)
    IN  {<<LatestStart(a, b), LatestStart(a, b)>>}
          \cup {p \in B \X B : p[1] < p[2] /\ ~\E c \in B : p[1] < c /\ c < p[2]}

\* at some instant of the overlap window the two are at most safety apart
Encounter(a, b, safety) ==
    /\ safety[1] >= 0
    /\ LatestStart(a, b) <= EarliestEnd(a, b)
    /\ \E p \in Pieces(a, b) :
          RLe(ClosestSq(Separation(a, b, p[1]), Separation(a, b, p[2])), RSq(safety))

\* non-empty, strictly timed trajectories: the motion is defined
Flown(trajectory) == NonEmpty(trajectory) /\ StrictlyTimed(trajectory)

\* C3: the sampling misses no encounter: for time-ordered trajectories, if
\* at some instant of the overlap window the interpolated positions are at
\* most safetyDistance apart, the other trajectory gets at least one report
\* and the accumulated list is not empty.
C3_NoMissedEncounter ==
    ( /\ ScanReturned
      /\ Flown(primary_mission)
      /\ Flown(LastFlight)
      /\ LatestStart(primary_mission, LastFlight) < EarliestEnd(primary_mission, LastFlight)
      /\ Encounter(primary_mission, LastFlight, safety_distance) )
    => (flight_conflicts # <<>> /\ conflicts # <<>>)

\* C4: if the primary trajectory and every other trajectory are more than
\* safetyDistance apart at every instant of their overlap window, positions
\* by linear interpolation of the waypoints, the result is clear with an
\* empty list.
C4_ApartIsClear ==
    ( /\ pc = "done"
      /\ Flown(primary_mission)
      /\ \A k \in DOMAIN simulated_flights :
            /\ Flown(simulated_flights[k])
            /\ ~Encounter(primary_mission, simulated_flights[k], safety_distance) )
    => (result.status = "clear" /\ result.details = <<>>)

(***************************************************************************)
(* The raw conflict events of a scan, for C5 to C10.                       *)
(***************************************************************************)
\* the waypoints' instants never decrease along the list
TimeOrdered(trajectory) ==
    LET times == wp_times(trajectory)
    IN  \A k \in 1..(Len(times) - 1) : times[k] <= times[k + 1]

\* the instants the sweep of the last scan visited
SampleInstants ==
    IF no_overlap(primary_path, sim_path) THEN {}
    ELSE {start_time + k * check_interval * TicksPerSecond :
            k \in 0..((end_time - start_time) \div (check_interval * TicksPerSecond))}

\* the sample of the last scan at an instant
Sample(t) == sample_at(primary_path, sim_path, drone_id, safety_distance, t)

\* the instants of the raw conflict events of the last scan
EventInstants == {t \in SampleInstants : ~IsNone(Sample(t))}

SetMin(S) == CHOOSE m \in S : \A x \in S : m <= x

SetMax(S) == CHOOSE m \in S : \A x \in S : x <= m

\* the hundredths between the primary-drone locations of two events exceed
\* 50 units
PlacesApart(e, f) ==
    LET a == e.primary_location
        b == f.primary_location
        dx == Abs(a.x - b.x)
        dy == Abs(a.y - b.y)
        dz == Abs(a.z - b.z)
        far == dedup_distance * Hundredths
    IN  \/ dx > far
        \/ dy > far
        \/ dz > far
        \/ dx * dx + dy * dy + dz * dz > far * far

\* more than 120 time units between two events
TimesApart(e, f) ==
    Abs(e.timestamp_obj - f.timestamp_obj) > dedup_seconds * TicksPerSecond

\* C5: every report returned carries a distance, rounded to 2 decimals, that
\* is at most the safety distance of the call.
C5_DistanceWithinSafety ==
    pc = "done" =>
        \A k \in DOMAIN result.details :
            RLe(<<result.details[k].distance, Hundredths>>, safety_distance)

\* C5 as amended: every report returned carries a distance, rounded to 2
\* decimals, that is at most the safety distance rounded to 2 decimals.
C5_DistanceWithinRoundedSafety ==
    pc = "done" =>
        \A k \in DOMAIN result.details :
            result.details[k].distance <= round2(safety_distance)

C5_Witness ==
    /\ pc = "done"
    /\ \E k \in DOMAIN result.details :
          /\ RLt(safety_distance, <<result.details[k].distance, Hundredths>>)
          /\ result.details[k].distance <= round2(safety_distance)

\* all waypoints of a non-empty trajectory are at one position
Stationary(trajectory) ==
    /\ NonEmpty(trajectory)
    /\ \A k \in DOMAIN trajectory.waypoints :
          get_coords(trajectory.waypoints[k]) = get_coords(trajectory.waypoints[1])

\* the primary and the last flight hover within the safety distance of each
\* other over a common time window
HoverTogether ==
    /\ ScanReturned
    /\ Stationary(primary_mission)
    /\ Stationary(LastFlight)
    /\ within_safety(distance_sq(get_coords(primary_mission.waypoints[1]),
                                 get_coords(LastFlight.waypoints[1])), safety_distance)
    /\ LatestStart(primary_mission, LastFlight) < EarliestEnd(primary_mission, LastFlight)

\* C6: when the primary and one other trajectory are both stationary within
\* safetyDistance of each other over a common time window of any length, the
\* other trajectory gets exactly one report, whose time is the start of the
\* overlap window.
C6_HoverOneReportAtStart ==
    HoverTogether =>
        /\ Len(flight_conflicts) = 1
        /\ conflicts # <<>>
        /\ flight_conflicts[1].time = isoformat(LatestStart(primary_mission, LastFlight))

\* C6 as amended: the same when both waypoint lists are in non-decreasing
\* time order, the report's time being the start of the overlap window
\* without its fraction of a second.
C6_OrderedHoverOneReportAtStart ==
    (HoverTogether /\ TimeOrdered(primary_mission) /\ TimeOrdered(LastFlight)) =>
        /\ Len(flight_conflicts) = 1
        /\ conflicts # <<>>
        /\ flight_conflicts[1].timestamp_obj = LatestStart(primary_mission, LastFlight)
        /\ flight_conflicts[1].time = strftime(LatestStart(primary_mission, LastFlight))

C6_Witness ==
    /\ HoverTogether
    /\ TimeOrdered(primary_mission)
    /\ TimeOrdered(LastFlight)
    /\ EarliestEnd(primary_mission, LastFlight) - LatestStart(primary_mission, LastFlight)
          > dedup_seconds * TicksPerSecond
    /\ Cardinality(EventInstants) > check_interval
    /\ Len(flight_conflicts) = 1

\* C7: if all raw conflict events of one other trajectory lie within a span
\* of at most 120 time units, the output has exactly one report for it,
\* however many events there are and wherever they are.
C7_ShortSpanOneReport ==
    ( /\ ScanReturned
      /\ EventInstants # {}
      /\ SetMax(EventInstants) - SetMin(EventInstants) <= dedup_seconds * TicksPerSecond )
    => Len(flight_conflicts) = 1

C7_Witness ==
    /\ ScanReturned
    /\ Cardinality(EventInstants) >= 3
    /\ SetMax(EventInstants) - SetMin(EventInstants) <= dedup_seconds * TicksPerSecond
    /\ PlacesApart(Sample(SetMin(EventInstants)), Sample(SetMax(EventInstants)))
    /\ Len(flight_conflicts) = 1

\* the raw conflict events of the last scan
Events == {Sample(t) : t \in EventInstants}

\* two events of one cluster: within 120 time units or within 50 distance
\* units of each other
Clustered(e, f) == ~TimesApart(e, f) \/ ~PlacesApart(e, f)

\* every pair of events of a set is of one cluster
OneCluster(S) == \A e \in S : \A f \in S : Clustered(e, f)

\* the earliest event of a non-empty set of events
Earliest(S) == CHOOSE e \in S : \A f \in S : e.timestamp_obj <= f.timestamp_obj

\* the events of a set in one cluster with a given event
ClusterOf(first, S) == {e \in S : Clustered(e, first)}

\* the events form exactly two clusters, every event of the one more than 120
\* time units and more than 50 distance units from every event of the other;
\* the cluster of the earliest event then holds the events close to it
TwoClusters(S) ==
    /\ S # {}
    /\ \E A \in {ClusterOf(Earliest(S), S)} :
       \E B \in {S \ A} :
          /\ B # {}
          /\ OneCluster(A)
          /\ OneCluster(B)
          /\ \A e \in A : \A f \in B : TimesApart(e, f) /\ PlacesApart(e, f)

\* the events of a set away from its earliest event's cluster
LaterCluster(S) == S \ ClusterOf(Earliest(S), S)

\* C8: raw conflict events of one other trajectory that form two clusters
\* separated by more than 120 time units and more than 50 distance units give
\* exactly two reports for that trajectory.
C8_TwoClustersTwoReports ==
    ScanReturned =>
        \A S \in {Events} : TwoClusters(S) => Len(flight_conflicts) = 2

C8_Witness ==
    /\ ScanReturned
    /\ \E S \in {Events} :
          /\ TwoClusters(S)
          /\ Cardinality(LaterCluster(S)) >= 2
          /\ Cardinality(S \ LaterCluster(S)) >= 2
    /\ Len(flight_conflicts) = 2

\* the events are those of one uninterrupted run of consecutive samples
OneRun ==
    /\ EventInstants # {}
    /\ \A t \in SampleInstants :
          (SetMin(EventInstants) <= t /\ t <= SetMax(EventInstants)) => t \in EventInstants

\* every event of a non-empty set is in one cluster with its earliest event
AllNearFirst(S) == \A first \in {Earliest(S)} : \A e \in S : Clustered(e, first)

\* C9: one continuous incursion, a single uninterrupted run of consecutive
\* samples within the safety distance, gives exactly one report.
C9_OneRunOneReport ==
    (ScanReturned /\ OneRun) => Len(flight_conflicts) = 1

\* C9 as amended: such a run gives exactly one report when each of its
\* samples is within 120 time units of the run's first sample or has its
\* primary-drone location within 50 distance units of the first one's.
C9_OneRunNearFirstOneReport ==
    (ScanReturned /\ OneRun /\ AllNearFirst(Events)) => Len(flight_conflicts) = 1

C9_Witness ==
    /\ ScanReturned
    /\ OneRun
    /\ \E S \in {Events} :
          /\ AllNearFirst(S)
          /\ \E first \in {Earliest(S)} : \E e \in S : TimesApart(e, first)
    /\ Len(flight_conflicts) = 1

\* s is an initial part of t
IsPrefix(s, t) ==
    /\ Len(s) <= Len(t)
    /\ \A k \in DOMAIN s : s[k] = t[k]

\* the reports of the scan under way or just returned
ReportsInOrder ==
    (pc = "while" \/ ScanReturned) =>
        /\ \A k \in 1..(Len(flight_conflicts) - 1) :
              /\ flight_conflicts[k].timestamp_obj < flight_conflicts[k + 1].timestamp_obj
              /\ flight_conflicts[k].time.at < flight_conflicts[k + 1].time.at
        /\ \A k \in DOMAIN flight_conflicts :
              /\ flight_conflicts[k].timestamp_obj \in start_time..end_time
              /\ (flight_conflicts[k].timestamp_obj - start_time)
                    % (check_interval * TicksPerSecond) = 0
              /\ flight_conflicts[k] = Sample(flight_conflicts[k].timestamp_obj)

\* each report of a returned scan is the earliest event of those grouped with
\* it: every event is clustered with a report that is not later than it, and
\* no report is clustered with an earlier report
ReportsAreFirstSeen ==
    ScanReturned =>
        /\ \A e \in Events :
              \E k \in DOMAIN flight_conflicts :
                  /\ Clustered(e, flight_conflicts[k])
                  /\ flight_conflicts[k].timestamp_obj <= e.timestamp_obj
        /\ \A k \in DOMAIN flight_conflicts : \A j \in 1..(k - 1) :
              ~Clustered(flight_conflicts[k], flight_conflicts[j])

\* a report once kept is neither replaced nor altered by a later event of
\* the same call
ReportsKept ==
    /\ pc = "while" => IsPrefix(flight_conflicts, flight_conflicts')
    /\ pc' # "call" => IsPrefix(conflicts, conflicts')

\* C10: the reports of one other trajectory are in increasing time order and
\* each is the first-detected event of its cluster, with that event's time,
\* positions and distance; later events of the cluster never replace or
\* alter it.
C10_FirstSeenKept ==
    /\ []ReportsInOrder
    /\ []ReportsAreFirstSeen
    /\ [][ReportsKept]_vars

C10_Witness ==
    /\ ScanReturned
    /\ Len(flight_conflicts) >= 2
    /\ Cardinality(Events) > Len(flight_conflicts) + 2
    /\ \E e \in Events :
          /\ e.timestamp_obj > flight_conflicts[2].timestamp_obj
          /\ Clustered(e, flight_conflicts[2])

(***************************************************************************)
(* One scan as a function of its pair, for C11 and C18.                    *)
(***************************************************************************)
\* the while loop of detect_path_conflicts from current_time on: the reports
\* kept when it ends
RECURSIVE sweep_from(_, _, _, _, _, _, _)
sweep_from(p_path, s_path, id, safety, t, end, detected) ==
    IF t > end THEN detected
    ELSE LET potential_conflict == sample_at(p_path, s_path, id, safety, t)
             kept == IF ~IsNone(potential_conflict)
                        /\ is_new_conflict(potential_conflict, detected)
                     THEN Append(detected, potential_conflict)
                     ELSE detected
         IN  sweep_from(p_path, s_path, id, safety,
                        t + check_interval * TicksPerSecond, end, kept)

\* detect_path_conflicts(primary_path, sim_path, drone_id, safety_distance)
detect_path_conflicts(p_path, s_path, id, safety) ==
    IF no_overlap(p_path, s_path) THEN <<>>
    ELSE sweep_from(p_path, s_path, id, safety,
                    window_start(p_path, s_path), window_end(p_path, s_path), <<>>)

\* the reports of the scan of one pair
scan_pair(primary, sim_flight, safety) ==
    detect_path_conflicts(generate_continuous_path(primary, step_seconds),
                          generate_continuous_path(sim_flight, step_seconds),
                          resolve_drone_id(sim_flight), safety)

\* the reports of the first n flights of a list, each scanned against the
\* primary alone, in list order
RECURSIVE scan_pairs(_, _, _, _)
scan_pairs(primary, flights, safety, n) ==
    IF n = 0 THEN <<>>
    ELSE scan_pairs(primary, flights, safety, n - 1)
           \o scan_pair(primary, flights[n], safety)

\* the reports of one simulated flight scanned against the primary alone
Alone(sim_flight) == scan_pair(primary_mission, sim_flight, safety_distance)

\* the reports of the first n flights of a list, each scanned alone
AloneUpTo(flights, n) == scan_pairs(primary_mission, flights, safety_distance, n)

\* C11: the reports contributed by one other trajectory are those of its scan
\* against the primary alone, whichever trajectories accompany it and in
\* whatever order, also when two of them resolve to one identifier.
C11_ScopedPerPair ==
    /\ ScanReturned => flight_conflicts = Alone(LastFlight)
    /\ pc = "done" => result.details = AloneUpTo(simulated_flights, Len(simulated_flights))

C11_Witness ==
    /\ pc = "done"
    /\ Len(simulated_flights) = 2
    /\ simulated_flights[1] # simulated_flights[2]
    /\ resolve_drone_id(simulated_flights[1]) = "Unknown_Drone"
    /\ resolve_drone_id(simulated_flights[2]) = "Unknown_Drone"
    /\ \E a \in {Alone(simulated_flights[1])} : \E b \in {Alone(simulated_flights[2])} :
          /\ a # <<>>
          /\ b # <<>>
          /\ Clustered(b[1], a[1])
          /\ result.details = a \o b

(***************************************************************************)
(* Properties of the path and of the position query, under PathSpec.       *)
(***************************************************************************)
\* the path of the trajectory has been generated
Generated == pc \in {"query", "answered"}

\* a position query has returned
Answered == pc = "answered"

\* the instants of the points of the generated path
PathTimes == path_times(drone_path)

\* C12: the path of a non-empty trajectory starts at the timestamp of the
\* first waypoint and ends at the timestamp of the last waypoint, for every
\* step.
C12_PathEnds ==
    (Generated /\ NonEmpty(mission_or_flight)) =>
        LET waypoints == mission_or_flight.waypoints
        IN  /\ drone_path # <<>>
            /\ drone_path[1].timestamp = waypoints[1].timestamp
            /\ drone_path[Len(drone_path)].timestamp = waypoints[Len(waypoints)].timestamp

C12_Witness ==
    /\ Generated
    /\ step > 1
    /\ Len(mission_or_flight.waypoints) >= 3
    /\ Len(drone_path) > Len(mission_or_flight.waypoints)
    /\ drone_path[1].timestamp = mission_or_flight.waypoints[1].timestamp
    /\ PathTimes[Len(drone_path)] - PathTimes[Len(drone_path) - 1] \in 1..(TicksPerSecond - 1)

\* C13: the timestamps of the path of a trajectory whose waypoint timestamps
\* never decrease never decrease along the path, for every step.
C13_PathTimesOrdered ==
    (Generated /\ TimeOrdered(mission_or_flight)) =>
        \A k \in 1..(Len(drone_path) - 1) : PathTimes[k] <= PathTimes[k + 1]

\* the timestamps of the path queried never decrease along it
PathOrdered == \A k \in 1..(Len(drone_path) - 1) : PathTimes[k] <= PathTimes[k + 1]

FirstLater == CHOOSE a \in DOMAIN drone_path :
                 /\ PathTimes[a] > target_time
                 /\ \A k \in 1..(a - 1) : PathTimes[k] <= target_time

\* a position was returned for a time strictly inside the path's time span
AnsweredInside ==
    /\ Answered
    /\ drone_path # <<>>
    /\ ~IsNone(position)
    /\ min_time(PathTimes) < target_time
    /\ target_time < max_time(PathTimes)

\* v lies between a and b
Between(v, a, b) ==
    \/ RLe(a, v) /\ RLe(v, b)
    \/ RLe(b, v) /\ RLe(v, a)

\* C15: a position returned for a time strictly between the path's least and
\* greatest timestamp has, on each axis, a coordinate between those of the
\* two bracketing samples, the interpolation factor being in [0, 1].
C15_WithinBrackets ==
    AnsweredInside =>
        LET before == get_coords(drone_path[FirstLater - 1])
            after  == get_coords(drone_path[FirstLater])
            pos    == get_coords(position)
        IN  /\ FirstLater > 1
            /\ 0 <= target_time - PathTimes[FirstLater - 1]
            /\ target_time - PathTimes[FirstLater - 1]
                  <= PathTimes[FirstLater] - PathTimes[FirstLater - 1]
            /\ \A c \in 1..3 : Between(pos[c], before[c], after[c])

C15_Witness ==
    /\ AnsweredInside
    /\ step > 1
    /\ target_time > PathTimes[FirstLater - 1]
    /\ \E c \in 1..3 :
          /\ get_coords(position)[c] # get_coords(drone_path[FirstLater - 1])[c]
          /\ get_coords(position)[c] # get_coords(drone_path[FirstLater])[c]
    /\ get_coords(drone_path[FirstLater]) # get_coords(drone_path[Len(drone_path)])

\* the trajectory has two waypoints a whole number of seconds apart, in time
\* order, and its path was generated with step 1
TwoWaypointsWholeSeconds ==
    /\ Generated
    /\ step = step_seconds
    /\ Len(mission_or_flight.waypoints) = 2
    /\ wp_times(mission_or_flight)[1] <= wp_times(mission_or_flight)[2]
    /\ (wp_times(mission_or_flight)[2] - wp_times(mission_or_flight)[1]) % TicksPerSecond = 0

\* the duration of a two-waypoint trajectory in seconds
DurationSeconds ==
    (wp_times(mission_or_flight)[2] - wp_times(mission_or_flight)[1]) \div TicksPerSecond

OmitsZ(wp) == "position" \notin DOMAIN wp /\ "z" \notin DOMAIN wp

\* a trajectory of two or more named-field waypoints, some of them without z
Flat(trajectory) ==
    /\ Len(trajectory.waypoints) >= 2
    /\ \A k \in DOMAIN trajectory.waypoints : "position" \notin DOMAIN trajectory.waypoints[k]
    /\ \E k \in DOMAIN trajectory.waypoints : OmitsZ(trajectory.waypoints[k])

\* the waypoint with z = 0 written out where it is omitted
WithZ(wp) ==
    IF OmitsZ(wp)
    THEN [x |-> wp.x, y |-> wp.y, z |-> Q(0), timestamp |-> wp.timestamp]
    ELSE wp

\* the trajectory with z = 0 written out where it is omitted
FillZ(trajectory) ==
    [trajectory EXCEPT !.waypoints = [k \in DOMAIN trajectory.waypoints |->
                                         WithZ(trajectory.waypoints[k])]]

\* the call has ended, with a result or with an exception
Ended == pc \in {"done", "raised"}

\* C16: a query in which a trajectory of two or more named-field waypoints
\* omits z completes without an error, with the reports of the same query
\* with z = 0 written out.
C16_MissingZIsZero ==
    ( /\ Ended
      /\ \/ Flat(primary_mission)
         \/ \E k \in DOMAIN simulated_flights : Flat(simulated_flights[k]) )
    => /\ pc = "done"
       /\ result.details =
             scan_pairs(FillZ(primary_mission),
                        [k \in DOMAIN simulated_flights |-> FillZ(simulated_flights[k])],
                        safety_distance, Len(simulated_flights))

(***************************************************************************)
(* Two calls with the same arguments, for C17.                             *)
(***************************************************************************)
\* C17: a call with the arguments of an earlier call returns what the
\* earlier call returned, whenever it is made, also when a timestamp of the
\* input is malformed.
C17_SameArgumentsSameResult ==
    (pc = "done" /\ earlier # NoResult) => result = earlier

(***************************************************************************)
(* Trajectories without waypoints, for C18.                                *)
(***************************************************************************)
\* the flights of a list that have waypoints, in list order
RECURSIVE WithWaypoints(_)
WithWaypoints(flights) ==
    IF flights = <<>> THEN <<>>
    ELSE IF Head(flights).waypoints = <<>> THEN WithWaypoints(Tail(flights))
    ELSE <<Head(flights)>> \o WithWaypoints(Tail(flights))

\* some simulated flight has no waypoint
SomeFlightEmpty == \E k \in DOMAIN simulated_flights : simulated_flights[k].waypoints = <<>>

\* C18: a trajectory without waypoints raises no error and contributes no
\* report, and the other trajectories of the call contribute what they
\* contribute without it.
C18_EmptyContributesNothing ==
    /\ (ScanReturned /\ (LastFlight.waypoints = <<>> \/ primary_mission.waypoints = <<>>))
          => flight_conflicts = <<>>
    /\ (pc = "done" /\ primary_mission.waypoints = <<>>) => result = [status |-> "clear", details |-> <<>>]
    /\ (pc = "done" /\ SomeFlightEmpty) =>
          \A others \in {WithWaypoints(simulated_flights)} :
              result.details = scan_pairs(primary_mission, others, safety_distance, Len(others))
    /\ (pc = "raised" /\ (SomeFlightEmpty \/ primary_mission.waypoints = <<>>)) =>
          \E m \in {primary_mission} \cup {simulated_flights[k] : k \in DOMAIN simulated_flights} :
              /\ m.waypoints # <<>>
              /\ generate_raises(m)

C18_Witness ==
    /\ pc = "done"
    /\ Len(simulated_flights) = 2
    /\ simulated_flights[1].waypoints # <<>>
    /\ simulated_flights[2].waypoints = <<>>
    /\ result.details # <<>>
    /\ result.details = Alone(simulated_flights[1])

(***************************************************************************)
(* realtime_simulator.RealTimeSimulator, for C20                           *)
(***************************************************************************)
\* utils.interpolate_mission_path: the first waypoint, then every segment
\* without its first point; the final waypoint is not appended
RECURSIVE mission_segments(_, _, _)
mission_segments(waypoints, i, every) ==
    IF i > Len(waypoints) - 1 THEN <<>>
    ELSE LET interpolated_segment == interpolate_waypoints(waypoints[i], waypoints[i + 1], every)
         IN  (IF Len(interpolated_segment) > 1 THEN Tail(interpolated_segment) ELSE <<>>)
               \o mission_segments(waypoints, i + 1, every)

interpolate_mission_path(waypoints, every) ==
    IF Len(waypoints) < 2 THEN waypoints
    ELSE <<waypoints[1]>> \o mission_segments(waypoints, 1, every)

\* utils.euclidean_distance's get_coords: no default for a missing z
euclidean_get_coords(pos) ==
    IF "position" \in DOMAIN pos
    THEN <<pos.position[1], pos.position[2], pos.position[3]>>
    ELSE <<pos.x, pos.y, pos.z>>

\* RealTimeSimulator.get_drone_position_at_time: None unless a point at or
\* before target_time and a point after it are both found; the point itself
\* on an exact match
RealTimeSimulator_get_drone_position_at_time(path, t) ==
    IF path = <<>> THEN None
    ELSE
      LET br == find_brackets(path, t)
      IN  IF br[1] = 0 \/ br[2] = 0 THEN None
          ELSE
            LET before_point == path[br[1]]
                after_point  == path[br[2]]
                before_time  == parse_time(before_point.timestamp)
                after_time   == parse_time(after_point.timestamp)
            IN  IF before_time = t THEN before_point
                ELSE
                  LET time_diff == after_time - before_time
                      elapsed   == t - before_time
                      ratio     == IF time_diff > 0 THEN Norm(elapsed, time_diff) ELSE Q(0)
                      before    == euclidean_get_coords(before_point)
                      after     == euclidean_get_coords(after_point)
                  IN  [x |-> RAdd(before[1], RMul(RSub(after[1], before[1]), ratio)),
                       y |-> RAdd(before[2], RMul(RSub(after[2], before[2]), ratio)),
                       z |-> RAdd(before[3], RMul(RSub(after[3], before[3]), ratio)),
                       timestamp |-> t]

\* the simulator's positions of the primary and of one simulated drone at t
simulator_positions(primary, sim_flight, t) ==
    <<RealTimeSimulator_get_drone_position_at_time(
          interpolate_mission_path(primary.waypoints, step_seconds), t),
      RealTimeSimulator_get_drone_position_at_time(
          interpolate_mission_path(sim_flight.waypoints, step_seconds), t)>>

\* RealTimeSimulator.check_collisions_at_time, for one simulated drone:
\* distance < safety_distance, on the square of the distance
check_collisions_at_time(primary, sim_flight, safety, t) ==
    LET pos == simulator_positions(primary, sim_flight, t)
    IN  /\ ~IsNone(pos[1])
        /\ ~IsNone(pos[2])
        /\ safety[1] > 0
        /\ RLt(distance_sq(euclidean_get_coords(pos[1]), euclidean_get_coords(pos[2])),
               RSq(safety))

\* every waypoint of the trajectory carries a height
CarriesZ(trajectory) == \A k \in DOMAIN trajectory.waypoints : ~OmitsZ(trajectory.waypoints[k])

\* the sweep is about to sample current_time for a pair the simulator can be
\* built with
Sampling ==
    /\ pc = "while"
    /\ current_time <= end_time
    /\ CarriesZ(primary_mission)
    /\ CarriesZ(simulated_flights[flight])

\* the sample at current_time is a conflict for the checker
CheckerConflict ==
    ~IsNone(sample_at(primary_path, sim_path, drone_id, safety_distance, current_time))

\* the checker has a position for both drones at current_time
CheckerDecides ==
    /\ ~IsNone(get_drone_position_at_time(primary_path, current_time))
    /\ ~IsNone(get_drone_position_at_time(sim_path, current_time))

\* the simulator has a position for both drones at current_time
SimulatorDecides ==
    \A pos \in {simulator_positions(primary_mission, simulated_flights[flight], current_time)} :
        ~IsNone(pos[1]) /\ ~IsNone(pos[2])

\* current_time is the final instant of one of the two trajectories
FinalInstant ==
    \/ current_time = max_time(wp_times(primary_mission))
    \/ current_time = max_time(wp_times(simulated_flights[flight]))

\* C20: at every sampled instant at which the checker and the simulator both
\* have the two positions, the checker finds a conflict exactly when the
\* simulator reports a collision with that drone; and at the final instant
\* of a flight, where the checker has the two positions, so does the
\* simulator, with the same verdict.
C20_CheckerMatchesSimulator ==
    Sampling =>
        /\ (CheckerDecides /\ SimulatorDecides) =>
              (CheckerConflict <=>
                   check_collisions_at_time(primary_mission, simulated_flights[flight],
                                            safety_distance, current_time))
        /\ (CheckerDecides /\ FinalInstant) =>
              (CheckerConflict <=>
                   check_collisions_at_time(primary_mission, simulated_flights[flight],
                                            safety_distance, current_time))

(***************************************************************************)
(* RealTimeSimulator.animate_frame: the deduplication of collisions, for   *)
(* C21                                                                     *)
(***************************************************************************)
\* the collision dictionary of check_collisions_at_time for a raw conflict
\* event: its time and the primary position as computed, unrounded
collision_of(t) ==
    [time |-> t,
     primary_pos |-> get_coords(get_drone_position_at_time(primary_path, t)),
     simulated_drone |-> drone_id]

\* if time_diff <= 120 or spatial_distance <= 50, for collisions of one drone
simulator_same_zone(collision, existing_collision) ==
    /\ existing_collision.simulated_drone = collision.simulated_drone
    /\ \/ Abs(collision.time - existing_collision.time) <= dedup_seconds * TicksPerSecond
       \/ RLe(distance_sq(collision.primary_pos, existing_collision.primary_pos),
              RSq(Q(dedup_distance)))

\* the loop over self.detected_collisions: is_new_conflict
simulator_is_new_conflict(collision, detected_collisions) ==
    \A k \in DOMAIN detected_collisions :
        ~simulator_same_zone(collision, detected_collisions[k])

\* self.detected_collisions after the raw conflict events of the sweep from t
\* up to, not including, the instant until
RECURSIVE detected_collisions_from(_, _, _)
detected_collisions_from(t, until, detected_collisions) ==
    IF t >= until THEN detected_collisions
    ELSE detected_collisions_from(t + check_interval * TicksPerSecond, until,
             IF ~IsNone(Sample(t))
                /\ simulator_is_new_conflict(collision_of(t), detected_collisions)
             THEN Append(detected_collisions, collision_of(t))
             ELSE detected_collisions)

\* the instants of the events accepted so far by the checker
AcceptedByChecker == [k \in DOMAIN detected_conflicts |-> detected_conflicts[k].timestamp_obj]

\* the instants of the events accepted so far by the simulator
AcceptedBySimulator ==
    LET detected_collisions == detected_collisions_from(start_time, current_time, <<>>)
    IN  [k \in DOMAIN detected_collisions |-> detected_collisions[k].time]

\* C21: fed the raw conflict events of one sweep in time order, the checker
\* and the simulator accept the same events as new conflicts.
C21_SameEventsAccepted ==
    pc = "while" => AcceptedByChecker = AcceptedBySimulator

(***************************************************************************)
(* The cadence of the sweep, for C22.                                      *)
(***************************************************************************)
\* timedelta(seconds=check_interval)
Cadence == check_interval * TicksPerSecond

\* a sweep under way is k steps of the cadence from a start that is before
\* the end, the instant sampled last is in the window, and the sweep returns
\* once the window is passed
OnCadence ==
    pc = "while" =>
        /\ start_time < end_time
        /\ current_time >= start_time
        /\ (current_time - start_time) % Cadence = 0
        /\ current_time - Cadence <= end_time
        /\ current_time > end_time => ENABLED SweepEnd

\* a step of the sweep: it begins at start, samples an instant of the window
\* and moves one step of the cadence on (so that the window is passed after
\* finitely many iterations), and ends after floor((end - start) / 5) + 1
\* iterations
CadenceStep ==
    /\ (pc = "for" /\ pc' = "while") => current_time' = start_time'
    /\ (pc = "while" /\ pc' = "while") =>
          /\ current_time \in start_time..end_time
          /\ current_time' = current_time + Cadence
          /\ start_time' = start_time /\ end_time' = end_time
    /\ (pc = "while" /\ pc' = "for") =>
          current_time = start_time + Cadence * ((end_time - start_time) \div Cadence + 1)

\* C22: for a pair with start < end the sweep ends after exactly
\* floor((end - start) / 5) + 1 iterations, which sample start + 5k in
\* increasing order and no instant outside [start, end]; start is sampled,
\* and end is when the cadence reaches it.
C22_SweepCadence ==
    /\ []OnCadence
    /\ [][CadenceStep]_vars

\* the sweep is about to sample the end of a window of several steps
C22_Witness ==
    /\ pc = "while"
    /\ current_time = end_time
    /\ current_time >= start_time + 2 * Cadence

(***************************************************************************)
(* Bare times of day, for C23.                                             *)
(***************************************************************************)
\* a trajectory whose timestamps are all of one format
TimedAs(trajectory, fmt) ==
    /\ trajectory.waypoints # <<>>
    /\ \A k \in DOMAIN trajectory.waypoints : trajectory.waypoints[k].timestamp.fmt = fmt

\* the times of day of the waypoints, on the current date
clock_times(trajectory) ==
    [k \in DOMAIN trajectory.waypoints |-> trajectory.waypoints[k].timestamp.at]

\* the two trajectories are in flight together over some stretch of the
\* current date
SameClockTimes(a, b) ==
    Max(min_time(clock_times(a)), min_time(clock_times(b)))
        < Min(max_time(clock_times(a)), max_time(clock_times(b)))

\* C23: a bare HH:MM:SS is parsed to that time on the current date, so a
\* primary mission given with bare times and a flight given with ISO
\* timestamps of the current date over the same times of day have a
\* non-empty overlap window and are swept.
C23_BareTimesAreToday ==
    ( /\ ScanReturned
      /\ TimedAs(primary_mission, "H")
      /\ TimedAs(LastFlight, "T")
      /\ SameClockTimes(primary_mission, LastFlight) )
    => /\ wp_times(primary_mission) = clock_times(primary_mission)
       /\ ~no_overlap(primary_path, sim_path)

(***************************************************************************)
(* primary_drone_plotter.PrimaryDronePlotter: the mission editor, with the *)
(* reference instant at the default start time 2025-08-04T10:00:00.        *)
(***************************************************************************)
\* the most waypoints plotted
MaxWaypoints == 3

\* the default end time, 15 minutes after the default start time
DefaultEndSeconds == 900

\* the places clicked: the origin, and 300.004 units along x
ClickPool == {<<Q(0), Q(0)>>, <<<<75001, 250>>, Q(0)>>}

\* the texts submitted as a start time, the last one not a time
StartTexts == {isoformat(0), isoformat(Sec(DefaultEndSeconds)), [fmt |-> "?", at |-> 0]}

\* the texts submitted as an end time, the last one not a time
EndTexts == {isoformat(Sec(DefaultEndSeconds)), isoformat(Sec(6)), [fmt |-> "?", at |-> 0]}

\* the contents of the files of simulated drones
DroneFiles == {<<>>, <<FlightPool[7]>>}

\* int(a / b) for b > 0: towards zero
Trunc(a, b) == IF a >= 0 THEN a \div b ELSE -((-a) \div b)

\* round(v, 2) as a number
rounded(v) == Norm(round2(v), Hundredths)

\* start_dt + timedelta(seconds=int(k * total_duration / parts)), formatted
\* with strftime
timestamp_at(k, parts) ==
    LET start_dt == primary_start_time.at
        end_dt   == primary_end_time.at
        \* total_duration in ticks
        total_duration == end_dt - start_dt
        time_offset == Trunc(k * total_duration, parts * TicksPerSecond)
    IN  strftime(start_dt + time_offset * TicksPerSecond)

\* recalculate_timestamps on a list of waypoints, between two times
recalculate_timestamps(waypoints, start, end) ==
    [i \in DOMAIN waypoints |->
        IF Len(waypoints) = 1
        THEN [waypoints[i] EXCEPT !.timestamp = start]
        ELSE [waypoints[i] EXCEPT !.timestamp =
                 strftime(start.at + TicksPerSecond *
                     Trunc((i - 1) * (end.at - start.at),
                           (Len(waypoints) - 1) * TicksPerSecond))]]

EditorInit ==
    /\ primary_waypoints = <<>>
    /\ primary_start_time = isoformat(0)
    /\ primary_end_time = isoformat(Sec(DefaultEndSeconds))
    /\ other_drones \in DroneFiles
    /\ pc = "editing"
    /\ primary_mission = [waypoints |-> <<>>]
    /\ simulated_flights = <<>>
    /\ safety_distance = Q(2)
    /\ conflicts = <<>>
    /\ primary_path = <<>>
    /\ flight = 1
    /\ sim_path = <<>>
    /\ drone_id = ""
    /\ start_time = 0
    /\ end_time = 0
    /\ current_time = 0
    /\ flight_conflicts = <<>>
    /\ detected_conflicts = <<>>
    /\ result = NoResult
    /\ mission_or_flight = [waypoints |-> <<>>]
    /\ step = step_seconds
    /\ drone_path = <<>>
    /\ target_time = 0
    /\ position = None
    /\ now = CallTimes[1]
    /\ now_advances \in ClockPool(<<>>)
    /\ earlier = NoResult

\* a handler other than check_conflicts: the arguments and the value of the
\* last call of check_deconfliction, locals of check_conflicts, are gone
NoCheck ==
    /\ primary_mission' = [waypoints |-> <<>>]
    /\ simulated_flights' = <<>>
    /\ safety_distance' = Q(2)
    /\ result' = NoResult
    /\ pc' = "editing"
    /\ UNCHANGED <<query, calls, conflicts, primary_path, flight, sim_path, drone_id,
                   start_time, end_time, current_time, flight_conflicts,
                   detected_conflicts>>

\* add_waypoint(x, y, z), after a left click
add_waypoint ==
    /\ Len(primary_waypoints) < MaxWaypoints
    /\ \E click \in ClickPool :
          LET waypoint_index == Len(primary_waypoints)
              timestamp == IF primary_waypoints # <<>>
                           THEN timestamp_at(waypoint_index + 1, Len(primary_waypoints) + 1)
                           ELSE primary_start_time
              waypoint == [x |-> rounded(click[1]), y |-> rounded(click[2]), z |-> Q(10),
                           timestamp |-> timestamp]
          IN  primary_waypoints' = Append(primary_waypoints, waypoint)
    /\ NoCheck
    /\ UNCHANGED <<primary_start_time, primary_end_time, other_drones>>

\* remove_last_waypoint, after a right click
remove_last_waypoint ==
    /\ primary_waypoints # <<>>
    /\ primary_waypoints' = SubSeq(primary_waypoints, 1, Len(primary_waypoints) - 1)
    /\ NoCheck
    /\ UNCHANGED <<primary_start_time, primary_end_time, other_drones>>

\* update_start_time(text)
update_start_time ==
    /\ \E text \in StartTexts :
          IF text.fmt = "T"
          THEN /\ primary_start_time' = text
               /\ primary_waypoints' = recalculate_timestamps(primary_waypoints, text, primary_end_time)
          ELSE UNCHANGED <<primary_start_time, primary_waypoints>>
    /\ NoCheck
    /\ UNCHANGED <<primary_end_time, other_drones>>

\* update_end_time(text)
update_end_time ==
    /\ \E text \in EndTexts :
          IF text.fmt = "T"
          THEN /\ primary_end_time' = text
               /\ primary_waypoints' = recalculate_timestamps(primary_waypoints, primary_start_time, text)
          ELSE UNCHANGED <<primary_end_time, primary_waypoints>>
    /\ NoCheck
    /\ UNCHANGED <<primary_start_time, other_drones>>

\* clear_primary_path
clear_primary_path ==
    /\ primary_waypoints' = <<>>
    /\ NoCheck
    /\ UNCHANGED <<primary_start_time, primary_end_time, other_drones>>

\* load_other_drones, with a file chosen
load_other_drones ==
    /\ \E simulated_data \in DroneFiles : other_drones' = simulated_data
    /\ NoCheck
    /\ UNCHANGED <<primary_waypoints, primary_start_time, primary_end_time>>

\* check_conflicts, with waypoints plotted and drones loaded: the call of
\* check_deconfliction with its arguments and the value it returns
check_conflicts ==
    /\ primary_waypoints # <<>>
    /\ other_drones # <<>>
    /\ primary_mission' = [waypoints |-> primary_waypoints,
                           time_window |-> [start |-> primary_start_time,
                                            end |-> primary_end_time]]
    /\ simulated_flights' = other_drones
    /\ safety_distance' = Q(2)
    /\ \E details \in {scan_pairs(primary_mission', other_drones, Q(2), Len(other_drones))} :
          result' = [status |-> status_of(details), details |-> details]
    /\ pc' = "checked"
    /\ UNCHANGED <<query, calls, editor, conflicts, primary_path, flight, sim_path, drone_id,
                   start_time, end_time, current_time, flight_conflicts, detected_conflicts>>

EditorNext ==
    \/ add_waypoint
    \/ remove_last_waypoint
    \/ update_start_time
    \/ update_end_time
    \/ clear_primary_path
    \/ load_other_drones
    \/ check_conflicts

EditorSpec == EditorInit /\ [][EditorNext]_vars

\* the timestamps of the waypoints are spread evenly from the start time to
\* the end time: waypoint i of n at start + floor(i * duration / (n - 1))
EvenlyTimed ==
    Len(primary_waypoints) >= 2 =>
        \A i \in DOMAIN primary_waypoints :
            primary_waypoints[i].timestamp = timestamp_at(i - 1, Len(primary_waypoints) - 1)

\* C24: in the editor an add_waypoint that leaves n >= 2 waypoints, with the
\* start time before the end time, leaves their timestamps spread evenly
\* from the start time to the end time, and check_conflicts passes the
\* waypoints with these timestamps to check_deconfliction.
C24_EvenTimestamps ==
    /\ [][ ( /\ Len(primary_waypoints') = Len(primary_waypoints) + 1
             /\ primary_start_time.at < primary_end_time.at
             /\ EvenlyTimed )
           => EvenlyTimed' ]_vars
    /\ [](pc = "checked" => primary_mission.waypoints = primary_waypoints)

(***************************************************************************)
(* The keys of the reports returned, for C25.                              *)
(***************************************************************************)
\* C25: no report returned by detect_path_conflicts, and so none in the
\* details of check_deconfliction, has the key timestamp_obj.
C25_NoTimestampObj ==
    /\ ScanReturned =>
          \A k \in DOMAIN flight_conflicts : "timestamp_obj" \notin DOMAIN flight_conflicts[k]
    /\ pc = "done" =>
          \A k \in DOMAIN result.details : "timestamp_obj" \notin DOMAIN result.details[k]

(***************************************************************************)
(* The two invariants of the deduplication, for C26 and C27.               *)
(***************************************************************************)
\* C26: at every step of a sweep, every two reports accepted for the pair
\* are more than 120 time units apart and have their rounded primary-drone
\* locations more than 50 distance units apart.
C26_ReportsApart ==
    (pc = "while" \/ ScanReturned) =>
        \A k \in DOMAIN flight_conflicts : \A j \in 1..(k - 1) :
            /\ TimesApart(flight_conflicts[k], flight_conflicts[j])
            /\ PlacesApart(flight_conflicts[k], flight_conflicts[j])
            /\ TimesApart(detected_conflicts[k], detected_conflicts[j])
            /\ PlacesApart(detected_conflicts[k], detected_conflicts[j])

\* a sweep goes on after it has accepted two reports
C26_Witness ==
    /\ pc = "while"
    /\ current_time <= end_time
    /\ Len(flight_conflicts) >= 2
    /\ ~IsNone(Sample(current_time))

\* the instants sampled so far by the sweep under way or just returned at
\* which the pair was within the safety distance
EventsSoFar == {t \in EventInstants : pc = "while" => t < current_time}

\* C27: every sample at which the pair was within the safety distance is
\* represented: a report accepted at that sample or before it is within 120
\* time units of it, or has its primary-drone location within 50 distance
\* units of the sample's.
C27_EventsCovered ==
    (pc = "while" \/ ScanReturned) =>
        \A t \in EventsSoFar : \A e \in {Sample(t)} :
            \E k \in DOMAIN flight_conflicts :
                /\ flight_conflicts[k].timestamp_obj <= t
                /\ \/ ~TimesApart(e, flight_conflicts[k])
                   \/ ~PlacesApart(e, flight_conflicts[k])

\* a sweep under way has sampled events of a second report, the last of
\* them not accepted
C27_Witness ==
    /\ pc = "while"
    /\ Len(flight_conflicts) >= 2
    /\ \E t \in EventsSoFar :
          /\ t > flight_conflicts[2].timestamp_obj
          /\ TimesApart(Sample(t), flight_conflicts[1])
          /\ PlacesApart(Sample(t), flight_conflicts[1])

(***************************************************************************)
(* Samples without a position, for C28.                                    *)
(***************************************************************************)
\* the timestamps of a continuous path never decrease along it
NonDecreasing(path) ==
    \A times \in {path_times(path)} :
        \A k \in 1..(Len(path) - 1) : times[k] <= times[k + 1]

\* the sweep is about to sample current_time
AboutToSample == pc = "while" /\ current_time <= end_time

\* C28: when the timestamps of both continuous paths never decrease,
\* get_drone_position_at_time returns a position for both at every instant
\* the sweep samples, so that no sample is skipped.
C28_NoSampleSkipped ==
    (AboutToSample /\ NonDecreasing(primary_path) /\ NonDecreasing(sim_path))
        => CheckerDecides

\* the sweep samples the end of the window of two paths of several points
\* that end at different times
C28_Witness ==
    /\ AboutToSample
    /\ current_time = end_time
    /\ NonDecreasing(primary_path)
    /\ NonDecreasing(sim_path)
    /\ Len(primary_path) >= 3
    /\ Len(sim_path) >= 3
    /\ max_time(path_times(primary_path)) # max_time(path_times(sim_path))
    /\ CheckerDecides

\* the second half of C28: a sample inside the window is skipped, one of the
\* paths having timestamps that decrease
SkippedSample ==
    /\ AboutToSample
    /\ current_time > start_time
    /\ current_time < end_time
    /\ ~NonDecreasing(primary_path) \/ ~NonDecreasing(sim_path)
    /\ ~CheckerDecides

(***************************************************************************)
(* The position query on the path and on the waypoint list, for C29.       *)
(***************************************************************************)
\* every segment of the trajectory lasts no time or a whole number of steps
StepAligned(trajectory, every) ==
    \A times \in {wp_times(trajectory)} :
        \A k \in 1..(Len(times) - 1) :
            (times[k + 1] - times[k]) % (every * TicksPerSecond) = 0

\* the target time lies within the span of the trajectory
WithinSpan(trajectory, t) ==
    /\ NonEmpty(trajectory)
    /\ \A times \in {wp_times(trajectory)} :
          /\ times[1] <= t
          /\ t <= times[Len(times)]

SameStamp(trajectory) ==
    /\ NonEmpty(trajectory)
    /\ \A k \in DOMAIN trajectory.waypoints :
          trajectory.waypoints[k].timestamp = trajectory.waypoints[1].timestamp

\* C30: a trajectory whose waypoints all carry the same timestamp, be it the
\* primary mission or a simulated flight, never produces a report.
C30_InstantNeverReported ==
    /\ SameStamp(primary_mission) => (conflicts = <<>> /\ flight_conflicts = <<>>)
    /\ (pc = "while" /\ SameStamp(simulated_flights[flight]))
          => flight_conflicts = <<>>

\* the same for the timestamps that parse_time parses
InstantNeverReportedWhenParsed ==
    /\ ( /\ SameStamp(primary_mission)
         /\ primary_mission.waypoints[1].timestamp.fmt \in {"T", "H"} )
          => (conflicts = <<>> /\ flight_conflicts = <<>>)
    /\ ( /\ pc = "while"
         /\ SameStamp(simulated_flights[flight])
         /\ simulated_flights[flight].waypoints[1].timestamp.fmt \in {"T", "H"} )
          => flight_conflicts = <<>>

====
